---------------------------- MODULE Spec2Model ----------------------------
(***************************************************************************)
(* EventHub: the login lockout state machine (app.py login handler and the *)
(* lockout tracker it imports) and the payment-form field validators       *)
(* (validation.py), with the checkout handler that consumes them.          *)
(*                                                                         *)
(* A Python str is modelled as a sequence of one-character strings, so     *)
(* that normalisation, splitting and parsing are computed, not assumed.    *)
(* A call either returns (clean, error) or raises; both are values here.   *)
(***************************************************************************)
EXTENDS Integers, Sequences, FiniteSets, TLC

VARIABLES
    out,      \* the field validator called last: its argument and outcome,
              \* and whether the argument was its own clean output
    today,    \* date.today(): [year, month]
    form,     \* request.form of a checkout POST (five raw strings)
    pay,      \* what the checkout POST produced
    users,    \* data/users.json: the list of user records
    now,      \* time(): epoch seconds
    lockout,  \* the tracker's process-wide mapping identifier -> record
    req,      \* the login POSTs in flight, one per worker thread
    last,     \* the handler step that ran last, with what it saw and answered
    streak,   \* per identifier: consecutive failed attempts since a clean start
    struck    \* the identifiers with a failure registered since their lock
              \* was last imposed

payVars   == <<out, today, form, pay>>
loginVars == <<users, now, lockout, req, last, streak, struck>>
vars      == <<out, today, form, pay, users, now, lockout, req, last, streak,
               struck>>

-----------------------------------------------------------------------------
(* Characters and the str methods the validators use.                      *)

Digits  == {"0", "1", "2", "3", "4", "5", "6", "7", "8", "9"}
Letters == {"a", "b", "j", "x", "A", "J"}
\* The other characters drawn are " ", "-", "/", "@", ".", "'", "!" and "FW1",
\* which stands for U+FF11 FULLWIDTH DIGIT ONE: NFKC folds it to "1".

\* str.isalpha() of one character.
isalpha(c) == c \in Letters

\* str.isspace() of one character.
isspace(c) == c = " "

\* unicodedata.normalize("NFKC", .) of one character.
NFKC(c) == IF c = "FW1" THEN "1" ELSE c

\* str.lower() of one character.
LowerChar(c) == CASE c = "A" -> "a" [] c = "J" -> "j" [] OTHER -> c

lower(s) == [i \in 1..Len(s) |-> LowerChar(s[i])]

RECURSIVE lstrip(_)
lstrip(s) == IF s # <<>> /\ isspace(Head(s)) THEN lstrip(Tail(s)) ELSE s

RECURSIVE rstrip(_)
rstrip(s) ==
    IF s # <<>> /\ isspace(s[Len(s)]) THEN rstrip(SubSeq(s, 1, Len(s) - 1)) ELSE s

strip(s) == rstrip(lstrip(s))

\* s.replace(old, "") for a one-character old.
RECURSIVE remove(_, _)
remove(s, old) ==
    IF s = <<>> THEN <<>>
    ELSE IF Head(s) = old THEN remove(Tail(s), old)
    ELSE <<Head(s)>> \o remove(Tail(s), old)

\* s.split(sep) for a one-character sep: always at least one part.
RECURSIVE split(_, _)
split(s, sep) ==
    IF \A i \in 1..Len(s) : s[i] # sep THEN <<s>>
    ELSE LET k == CHOOSE i \in 1..Len(s) :
                      s[i] = sep /\ \A j \in 1..(i - 1) : s[j] # sep
         IN  <<SubSeq(s, 1, k - 1)>> \o split(SubSeq(s, k + 1, Len(s)), sep)

any_isalpha(s) == \E i \in 1..Len(s) : isalpha(s[i])

DigitVal(c) ==
    CASE c = "0" -> 0 [] c = "1" -> 1 [] c = "2" -> 2 [] c = "3" -> 3
      [] c = "4" -> 4 [] c = "5" -> 5 [] c = "6" -> 6 [] c = "7" -> 7
      [] c = "8" -> 8 [] c = "9" -> 9

RECURSIVE DigitsVal(_)
DigitsVal(s) ==
    IF s = <<>> THEN 0
    ELSE 10 * DigitsVal(SubSeq(s, 1, Len(s) - 1)) + DigitVal(s[Len(s)])

AllDigits(s) == \A i \in 1..Len(s) : s[i] \in Digits

\* int(s): surrounding whitespace is dropped, one sign is allowed, then one or
\* more digits; anything else is a ValueError.
int(s) ==
    LET t == strip(s)
        signed == t # <<>> /\ Head(t) \in {"-", "+"}
        body == IF signed THEN Tail(t) ELSE t
    IN  IF body # <<>> /\ AllDigits(body)
        THEN [ok |-> TRUE,
              val |-> IF signed /\ Head(t) = "-" THEN 0 - DigitsVal(body)
                      ELSE DigitsVal(body)]
        ELSE [ok |-> FALSE, val |-> 0]

\* A call's outcome: return (clean, error), or an exception leaving the call.
Ret(c, e) == [kind |-> "return", clean |-> c, error |-> e, exc |-> ""]
Raise(x)  == [kind |-> "raise", clean |-> <<>>, error |-> "", exc |-> x]

-----------------------------------------------------------------------------
(* validation.py                                                           *)

normalize_basic(value) == strip([i \in 1..Len(value) |-> NFKC(value[i])])

\* The body is `pass`: the function returns None and no validator calls it.
luhn_is_valid(number) == "None"

CARD_MIN_LEN == 13
CARD_MAX_LEN == 19

\* validate_card_number returning the number without its separators, which
\* it measured with them.
validate_card_number_strips_late(card_number) ==
    LET c == normalize_basic(card_number)
    IN  IF any_isalpha(c)
        THEN Ret(<<>>, "Card number must contain digits only")
        ELSE IF Len(c) <= CARD_MIN_LEN \/ Len(c) >= CARD_MAX_LEN
        THEN Ret(<<>>, "card number length must be between 13 and 19")
        ELSE Ret(remove(remove(c, " "), "-"), "")

validate_card_number(card_number) ==
    LET c == normalize_basic(card_number)
        \* line 70 builds remove(remove(c, " "), "-") and drops it: str is
        \* immutable and the result is not assigned.
    IN  IF any_isalpha(c)
        THEN Ret(<<>>, "Card number must contain digits only")
        ELSE IF Len(c) <= CARD_MIN_LEN \/ Len(c) >= CARD_MAX_LEN
        THEN Ret(<<>>, "card number length must be between 13 and 19")
        ELSE Ret(c, "")

MAX_MONTH == 12

\* date.today().year[:2]: an int is not subscriptable.
year_prefix(d) == Raise("TypeError")

validate_exp_date(exp_date, d) ==
    LET e == normalize_basic(exp_date)
        exp_date_list == split(e, "/")
    IN  IF Len(exp_date_list) # 2
           \/ any_isalpha(exp_date_list[1]) \/ any_isalpha(exp_date_list[2])
        THEN Ret(<<>>, "format must be MM/YY")
        ELSE LET m == int(exp_date_list[1])
             IN  IF ~m.ok THEN Raise("ValueError")
                 \* the chained comparison 1 < m > 12 is (1 < m) and (m > 12)
                 ELSE IF 1 < m.val /\ m.val > MAX_MONTH
                 THEN Ret(<<>>, "Month must be beween 01 and 12")
                 \* line 108 evaluates its left operand first; lines 109-113
                 \* are never reached.
                 ELSE year_prefix(d)

CVV_MIN_LEN == 3
CVV_MAX_LEN == 4

\* validate_cvv handing the accepted value back, as the other validators do.
validate_cvv_returns_value(cvv) ==
    IF any_isalpha(cvv) THEN Ret(<<>>, "Must contain only digits")
    ELSE IF Len(cvv) < CVV_MIN_LEN \/ Len(cvv) > CVV_MAX_LEN
    THEN Ret(<<>>, "Must be 3 or 4 digits")
    ELSE Ret(cvv, "")

validate_cvv(cvv) ==
    IF any_isalpha(cvv) THEN Ret(<<>>, "Must contain only digits")
    ELSE IF Len(cvv) < CVV_MIN_LEN \/ Len(cvv) > CVV_MAX_LEN
    THEN Ret(<<>>, "Must be 3 or 4 digits")
    ELSE Ret(<<>>, "")

EMAIL_MAX_LEN == 254

validate_billing_email(billing_email) ==
    LET b == normalize_basic(billing_email)
        \* line 162 computes lower(b) and drops it.
        list == split(b, "@")
    IN  IF Len(b) > EMAIL_MAX_LEN THEN Ret(<<>>, "Maximum length is 254")
        ELSE IF Len(list) # 2 \/ list[1] = <<>> \/ list[2] = <<>>
        THEN Ret(<<>>, "email must follow the following format juan@prueba.com")
        ELSE IF Len(split(list[2], ".")) # 2
        THEN Ret(<<>>, "email must follow the following format juan@prueba.com")
        ELSE Ret(b, "")

NAME_MIN_LEN == 2
NAME_MAX_LEN == 60

validate_name_on_card(name_on_card) ==
    LET n == normalize_basic(name_on_card)
    IN  IF Len(n) < NAME_MIN_LEN \/ Len(n) > NAME_MAX_LEN
        THEN Ret(<<>>, "Length must be between 2 and 60")
        ELSE IF ~(\E i \in 1..Len(n) :
                      isalpha(n[i]) \/ n[i] = "-" \/ n[i] = "'" \/ n[i] = " ")
        THEN Ret(<<>>, "Only letters (including accents), spaces, apostrophes, hyphens")
        \* line 198 computes remove(n, " ") and drops it.
        ELSE Ret(n, "")

\* The keys of request.form that the checkout handler reads (app.py 430-434).
Fields == {"card_number", "exp_date", "cvv", "name_on_card", "billing_email"}

\* The outcome of validate_payment_form: (clean, errors), or the exception of
\* the first validator that raised, which nothing catches.
FormRet(c, e)  == [kind |-> "return", clean |-> c, errors |-> e, exc |-> ""]
FormRaise(x)   == [kind |-> "raise", clean |-> <<>>, errors |-> <<>>, exc |-> x]

validate_payment_form(card_number, exp_date, cvv, name_on_card, billing_email, d) ==
    LET r1 == validate_card_number(card_number)
        r2 == validate_exp_date(exp_date, d)
        r3 == validate_cvv(cvv)
        r4 == validate_name_on_card(name_on_card)
        r5 == validate_billing_email(billing_email)
        calls == <<r1, r2, r3, r4, r5>>
        errs == [k \in {"card_number", "exp_date", "cvv", "name_on_card",
                        "billing_email"} |->
                   CASE k = "card_number" -> r1.error
                     [] k = "exp_date" -> r2.error
                     [] k = "cvv" -> r3.error
                     [] k = "name_on_card" -> r4.error
                     [] k = "billing_email" -> r5.error]
    IN  IF \E i \in 1..5 : calls[i].kind = "raise"
        THEN FormRaise(calls[CHOOSE i \in 1..5 :
                                 /\ calls[i].kind = "raise"
                                 /\ \A j \in 1..(i - 1) : calls[j].kind # "raise"].exc)
        ELSE FormRet(
                 [k \in {"card", "exp_date", "name_on_card", "billing_email"} |->
                    CASE k = "card" -> r1.clean
                      [] k = "exp_date" -> r2.clean
                      [] k = "name_on_card" -> r4.clean
                      [] k = "billing_email" -> r5.clean],
                 [k \in {f \in DOMAIN errs : errs[f] # ""} |-> errs[k]])

-----------------------------------------------------------------------------
(* app.py: the checkout handler                                            *)

\* dict.get(key, default)
get(dict, key, default) == IF key \in DOMAIN dict THEN dict[key] ELSE default

\* The keys the handler reads from clean (lines 444-451).
clean_keys_read == {"card_number", "exp_date", "name_on_card", "billing_email"}

\* s[-4:]
last4_of(s) == IF Len(s) <= 4 THEN s ELSE SubSeq(s, Len(s) - 3, Len(s))

Mask == <<"*", "*", "*", "*", " ", "*", "*", "*", "*", " ",
          "*", "*", "*", "*", " ">>

NoResult == [kind |-> "none", clean |-> <<>>, errors |-> <<>>, exc |-> ""]
NoPay == [method |-> "none", result |-> NoResult, status |-> 0,
          form_data |-> <<>>, order |-> <<>>]

\* GET /checkout/<id>: the empty form.
checkout_get == [method |-> "GET", result |-> NoResult, status |-> 200,
                 form_data |-> <<>>, order |-> <<>>]

\* POST /checkout/<id>: validate, build form_data from clean, then either
\* re-render with the errors (400) or append the order and redirect (302).
\* An exception leaving the view is the framework's 500.
checkout_post(f, d) ==
    LET r == validate_payment_form(f.card_number, f.exp_date, f.cvv,
                                   f.name_on_card, f.billing_email, d)
        cn == get(r.clean, "card_number", <<>>)
        last4 == IF cn # <<>> THEN last4_of(cn) ELSE <<>>
        masked_display == IF last4 # <<>> THEN Mask \o last4 ELSE <<>>
        form_data == [k \in clean_keys_read |->
                        IF k = "card_number" THEN masked_display
                        ELSE get(r.clean, k, <<>>)]
    IN  IF r.kind = "raise"
        THEN [method |-> "POST", result |-> r, status |-> 500,
              form_data |-> <<>>, order |-> <<>>]
        ELSE IF DOMAIN r.errors # {}
        THEN [method |-> "POST", result |-> r, status |-> 400,
              form_data |-> form_data, order |-> <<>>]
        ELSE [method |-> "POST", result |-> r, status |-> 302,
              form_data |-> form_data, order |-> form_data]

-----------------------------------------------------------------------------
(* The lockout tracker and validate_login_input, which app.py imports from *)
(* validation (app.py 15-26).                                              *)

MAX_ATTEMPTS  == 3
LOCK_DURATION == 300

NewRecord == [attempts |-> 0, lockedUntil |-> 0]

record_of(lk, identifier) ==
    IF identifier \in DOMAIN lk THEN lk[identifier] ELSE NewRecord

put(lk, identifier, rec) ==
    [k \in DOMAIN lk \cup {identifier} |-> IF k = identifier THEN rec ELSE lk[k]]

max(a, b) == IF a >= b THEN a ELSE b

\* isLocked(identifier) -> (locked, secondsRemaining)
is_account_locked(lk, identifier, t) ==
    IF identifier \in DOMAIN lk
    THEN [locked |-> lk[identifier].lockedUntil > t,
          seconds |-> max(0, lk[identifier].lockedUntil - t)]
    ELSE [locked |-> FALSE, seconds |-> 0]

\* register_failed_attempt locking one attempt late.
register_failed_attempt_late(lk, identifier, t) ==
    LET rec == record_of(lk, identifier)
        attempts == rec.attempts + 1
    IN  IF attempts > MAX_ATTEMPTS
        THEN put(lk, identifier,
                 [attempts |-> 0, lockedUntil |-> t + LOCK_DURATION])
        ELSE put(lk, identifier, [rec EXCEPT !.attempts = attempts])

\* register_failed_attempt locking without clearing the counter.
register_failed_attempt_keeps_count(lk, identifier, t) ==
    LET rec == record_of(lk, identifier)
        attempts == rec.attempts + 1
    IN  IF attempts >= MAX_ATTEMPTS
        THEN put(lk, identifier,
                 [attempts |-> attempts, lockedUntil |-> t + LOCK_DURATION])
        ELSE put(lk, identifier, [rec EXCEPT !.attempts = attempts])

register_failed_attempt(lk, identifier, t) ==
    LET rec == record_of(lk, identifier)
        attempts == rec.attempts + 1
    IN  IF attempts >= MAX_ATTEMPTS
        THEN put(lk, identifier,
                 [attempts |-> 0, lockedUntil |-> t + LOCK_DURATION])
        ELSE put(lk, identifier, [rec EXCEPT !.attempts = attempts])

\* register_successful_login resetting the counter only.
register_successful_login_keeps_lock(lk, identifier, t) ==
    IF ~is_account_locked(lk, identifier, t).locked
    THEN put(lk, identifier, [record_of(lk, identifier) EXCEPT !.attempts = 0])
    ELSE lk

register_successful_login(lk, identifier, t) ==
    IF ~is_account_locked(lk, identifier, t).locked
    THEN put(lk, identifier, NewRecord)
    ELSE lk

\* local@domain.tld: one "@", a non-empty local part, a dotted domain.
email_shape_ok(e) ==
    LET parts == split(e, "@")
    IN  /\ Len(e) <= EMAIL_MAX_LEN
        /\ \A i \in 1..Len(e) : ~isspace(e[i])
        /\ Len(parts) = 2
        /\ parts[1] # <<>>
        /\ LET labels == split(parts[2], ".")
           IN  Len(labels) >= 2 /\ \A i \in 1..Len(labels) : labels[i] # <<>>

\* (clean, errors): clean.email is the trimmed, lowercased email; any problem
\* is the one generic key errors.credentials.
validate_login_input(email, password) ==
    LET e == lower(normalize_basic(email))
    IN  IF email_shape_ok(e) /\ password # <<>>
        THEN [clean |-> [email |-> e], errors |-> {}]
        ELSE [clean |-> [email |-> <<>>], errors |-> {"credentials"}]

-----------------------------------------------------------------------------
(* app.py: users.json and the login handler                                *)

\* find_user_by_email: the first record whose normalised email matches.
find_user_by_email(us, email) ==
    LET email_norm == lower(strip(email))
        hits == {i \in 1..Len(us) : lower(strip(us[i].email)) = email_norm}
    IN  IF hits = {} THEN [found |-> FALSE, password |-> <<>>]
        ELSE [found |-> TRUE,
              password |-> us[CHOOSE i \in hits : \A j \in hits : i <= j].password]

NoSession == <<>>

\* What the client is sent: the status, the message over the form, the fields
\* marked as wrong, the session cookie's user.
Response(status, error, seconds, marked, session_user) ==
    [status |-> status, error |-> error, seconds |-> seconds,
     field_errors |-> marked, session |-> session_user]

\* login_check going on to the credential without asking the tracker.
login_check_skips_lock(lk, t, email_raw, password_raw) ==
    LET v == validate_login_input(email_raw, password_raw)
    IN  IF v.errors # {}
        THEN [done |-> TRUE, email_clean |-> <<>>, asked |-> FALSE,
              resp |-> Response(400, "Credenciales invalidas.", 0,
                                {"email", "password"}, NoSession)]
        ELSE [done |-> FALSE, email_clean |-> v.clean.email, asked |-> TRUE,
              resp |-> Response(0, "", 0, {}, NoSession)]

\* Lines 283-305 of one POST: validate the input, then ask the tracker.
\* [done, resp, email_clean]: done when the handler has answered.
login_check(lk, t, email_raw, password_raw) ==
    LET v == validate_login_input(email_raw, password_raw)
        l == is_account_locked(lk, v.clean.email, t)
    IN  IF v.errors # {}
        THEN [done |-> TRUE, email_clean |-> <<>>, asked |-> FALSE,
              resp |-> Response(400, "Credenciales invalidas.", 0,
                                {"email", "password"}, NoSession)]
        ELSE IF l.locked
        THEN [done |-> TRUE, email_clean |-> v.clean.email, asked |-> TRUE,
              resp |-> Response(403, "Cuenta bloqueada. Intenta nuevamente en",
                                l.seconds, {"email", "password"}, NoSession)]
        ELSE [done |-> FALSE, email_clean |-> v.clean.email, asked |-> TRUE,
              resp |-> Response(0, "", 0, {}, NoSession)]

\* login_auth telling an unknown account from a wrong password.
login_auth_names_unknown_user(us, lk, t, email_clean, password_raw) ==
    LET user == find_user_by_email(us, email_clean)
    IN  IF ~user.found
        THEN [lockout |-> lk, call |-> "", found |-> FALSE,
              resp |-> Response(404, "Usuario no encontrado.", 0,
                                {"email"}, NoSession)]
        ELSE IF user.password # password_raw
        THEN [lockout |-> register_failed_attempt(lk, email_clean, t),
              call |-> "register_failed_attempt", found |-> TRUE,
              resp |-> Response(401, "Credenciales invalidas.", 0,
                                {"email", "password"}, NoSession)]
        ELSE [lockout |-> register_successful_login(lk, email_clean, t),
              call |-> "register_successful_login", found |-> TRUE,
              resp |-> Response(302, "", 0, {}, email_clean)]

\* Lines 307-323: look the user up, compare the stored password, tell the
\* tracker, answer. [lockout, resp, call, found].
login_auth(us, lk, t, email_clean, password_raw) ==
    LET user == find_user_by_email(us, email_clean)
    IN  IF ~user.found \/ user.password # password_raw
        THEN [lockout |-> register_failed_attempt(lk, email_clean, t),
              call |-> "register_failed_attempt", found |-> user.found,
              resp |-> Response(401, "Credenciales invalidas.", 0,
                                {"email", "password"}, NoSession)]
        ELSE [lockout |-> register_successful_login(lk, email_clean, t),
              call |-> "register_successful_login", found |-> TRUE,
              resp |-> Response(302, "", 0, {}, email_clean)]

\* The whole POST at one clock reading: what is answered and what the
\* tracker holds afterwards.
login(us, lk, t, email_raw, password_raw) ==
    LET c == login_check(lk, t, email_raw, password_raw)
        a == login_auth(us, lk, t, c.email_clean, password_raw)
    IN  IF c.done THEN [lockout |-> lk, resp |-> c.resp]
        ELSE [lockout |-> a.lockout, resp |-> a.resp]

-----------------------------------------------------------------------------
(* Inputs                                                                  *)

Rep(c, n) == [i \in 1..n |-> c]

\* The longest card-number input drawn: one past CARD_MAX_LEN.
MaxCardLen == 20
\* How many clock steps a run takes.
MaxTicks == 4

\* 4111111111111111 and 4111111111111112 are the members of length 16.
CardInputs ==
    {<<>>} \cup
    {<<f>> \o Rep(m, n) \o <<l>> :
         f \in {"4", "a", "FW1"}, m \in {"1", "-"},
         n \in 0..(MaxCardLen - 2), l \in {"1", "2", " "}}
    \cup {<<"4", "1", "1", "1", sep, "1", "1", "1", "1", sep,
            "1", "1", "1", "1", sep, "1", "1", "1", "1">> : sep \in {"-", " "}}

ExpInputs ==
    {pad \o mm \o sep \o yy :
         pad \in {<<>>, <<" ">>},
         mm \in {<<>>, <<"0", "0">>, <<"0", "1">>, <<"0", "5">>,
                 <<"0", "6">>, <<"1", "3">>, <<"1", "a">>,
                 <<"-", "1">>, <<"6", "!">>, <<"FW1", "2">>},
         sep \in {<<>>, <<"/">>, <<"/", "/">>},
         yy \in {<<>>, <<"2", "4">>, <<"2", "5">>, <<"4", "0">>,
                 <<"4", "1">>, <<"2", "a">>}}

CvvInputs ==
    {<<>>, <<"1", "2">>, <<"1", "2", "3">>, <<"1", "2", "3", "4">>,
     <<"1", "2", "3", "4", "5">>, <<"1", "2", "a">>, <<"1", "2", "!">>,
     <<" ", "1", "2", "3">>}

NameInputs ==
    {<<>>, <<"a">>, <<"a", "b">>, <<"J", "a", " ", "b">>,
     <<"a", " ", " ", "b">>, <<"a", "1">>, <<"1", "2">>, <<"1", "!">>,
     <<"j", "'", "a", "-", "b">>, <<" ", "a", "b", " ">>,
     Rep("a", NAME_MAX_LEN), Rep("a", NAME_MAX_LEN + 1)}

EmailInputs ==
    {<<>>, <<"a">>, <<"a", "@", "x", ".", "b">>, <<"A", "@", "x", ".", "b">>,
     <<" ", "a", "@", "x", ".", "b", " ">>, <<"a", "@", "x">>,
     <<"a", "@", "x", ".", "b", ".", "j">>, <<"@", "x", ".", "b">>,
     <<"a", "@">>, <<"a", "@", "@", "x", ".", "b">>,
     <<"a", "@", "x", ".">>, <<"a", " ", "b", "@", "x", ".", "b">>,
     Rep("a", EMAIL_MAX_LEN - 4) \o <<"@", "x", ".", "b">>,
     Rep("a", EMAIL_MAX_LEN - 3) \o <<"@", "x", ".", "b">>}

FieldInputs == CardInputs \cup ExpInputs \cup CvvInputs \cup NameInputs \cup EmailInputs

MkForm(c, e, v, n, b) ==
    [card_number |-> c, exp_date |-> e, cvv |-> v, name_on_card |-> n,
     billing_email |-> b]

DefaultForm ==
    MkForm(<<"4">> \o Rep("1", 15), <<>>, <<"1", "2", "3">>, <<"a", "b">>,
           <<"a", "@", "x", ".", "b">>)

\* Forms in which one field ranges over every input, and forms in which all
\* five fields vary together.
Forms ==
    {[DefaultForm EXCEPT ![f] = x] : f \in Fields, x \in FieldInputs}
    \cup
    {MkForm(c, e, v, n, b) :
         c \in {<<"4">> \o Rep("1", 15), <<"4">> \o Rep("1", 14) \o <<"2">>,
                <<"a", "b">>},
         e \in {<<>>, <<"0", "6", "/", "2", "5">>, <<"1", "3", "/", "2", "5">>,
                <<"/", "2", "5">>},
         v \in {<<"1", "2", "3">>, <<"1", "2", "a">>},
         n \in {<<"a", "b">>, <<"a">>},
         b \in {<<"a", "@", "x", ".", "b">>, <<"a", "b">>}}

Todays == {[year |-> 2025, month |-> 6], [year |-> 2026, month |-> 1]}

NoCall == [kind |-> "none", clean |-> <<>>, error |-> "", exc |-> ""]
NoOut  == [fn |-> "none", arg |-> <<>>, res |-> NoCall, again |-> FALSE]

LoginEmails ==
    {<<" ", "A", "@", "x", ".", "b">>, <<"j", "@", "x", ".", "b">>, <<"a", "b">>}

LoginPasswords == {<<"x">>, <<"j">>, <<>>}

\* The (email, password) pairs submitted: the registered account with its
\* password, a wrong one and none; an unknown account; a malformed email.
LoginForms ==
    {<<e, p>> \in LoginEmails \X LoginPasswords :
         e = <<" ", "A", "@", "x", ".", "b">> \/ p = <<"x">>}

\* The identifiers the inputs above can produce.
Ids == {<<"a", "@", "x", ".", "b">>, <<"j", "@", "x", ".", "b">>}

User(e, p) == [email |-> e, password |-> p]

\* users.json: one registered account, stored as it was typed.
UserFile == <<User(<<"A", "@", "x", ".", "b", " ">>, <<"x">>)>>

Reqs == {"t1", "t2"}

Idle == [pc |-> "idle", password_raw |-> <<>>, email_clean |-> <<>>]

NoResponse == Response(0, "", 0, {}, NoSession)

NoLast == [op |-> "none", id |-> <<>>, password |-> <<>>,
           age |-> 0, pre |-> <<>>, was_locked |-> FALSE, asked |-> FALSE,
           compared |-> FALSE, found |-> FALSE, call |-> "",
           resp |-> NoResponse]

\* The clock advances in steps of a third of the lock duration.
TickStep == LOCK_DURATION \div 3

-----------------------------------------------------------------------------
(* The payment specification: a checkout form is submitted, and each field *)
(* validator is called on its field.                                       *)

LoginIdle ==
    /\ users = UserFile
    /\ now = TickStep
    /\ lockout = <<>>
    /\ req = [r \in Reqs |-> Idle]
    /\ last = NoLast
    /\ streak = [i \in Ids |-> 0]
    /\ struck = {}

InitPay ==
    /\ out = NoOut
    /\ today \in Todays
    /\ form \in Forms
    /\ pay = NoPay
    /\ LoginIdle

Call(fn, arg, res) ==
    /\ out' = [fn |-> fn, arg |-> arg, res |-> res, again |-> FALSE]
    /\ UNCHANGED <<today, form, pay>>
    /\ UNCHANGED loginVars

CallValidateCardNumber ==
    Call("validate_card_number", form.card_number,
         validate_card_number(form.card_number))

CallValidateExpDate ==
    Call("validate_exp_date", form.exp_date,
         validate_exp_date(form.exp_date, today))

CallValidateCvv ==
    Call("validate_cvv", form.cvv, validate_cvv(form.cvv))

CallValidateNameOnCard ==
    Call("validate_name_on_card", form.name_on_card,
         validate_name_on_card(form.name_on_card))

CallValidateBillingEmail ==
    Call("validate_billing_email", form.billing_email,
         validate_billing_email(form.billing_email))

\* The validators that return a clean value to store.
Storing ==
    {"validate_card_number", "validate_exp_date", "validate_name_on_card",
     "validate_billing_email"}

validator(fn, arg, d) ==
    CASE fn = "validate_card_number" -> validate_card_number(arg)
      [] fn = "validate_exp_date" -> validate_exp_date(arg, d)
      [] fn = "validate_name_on_card" -> validate_name_on_card(arg)
      [] fn = "validate_billing_email" -> validate_billing_email(arg)

\* The validator that accepted its argument is called on the clean value it
\* returned.
CallAgain ==
    /\ out.fn \in Storing
    /\ out.res.kind = "return"
    /\ out.res.error = ""
    /\ out' = [fn |-> out.fn, arg |-> out.res.clean,
               res |-> validator(out.fn, out.res.clean, today), again |-> TRUE]
    /\ UNCHANGED <<today, form, pay>>
    /\ UNCHANGED loginVars

CheckoutGet ==
    /\ pay' = checkout_get
    /\ UNCHANGED <<out, today, form>>
    /\ UNCHANGED loginVars

CheckoutPost ==
    /\ pay' = checkout_post(form, today)
    /\ UNCHANGED <<out, today, form>>
    /\ UNCHANGED loginVars

NextPay ==
    \/ CallValidateCardNumber
    \/ CallValidateExpDate
    \/ CallValidateCvv
    \/ CallValidateNameOnCard
    \/ CallValidateBillingEmail
    \/ CallAgain
    \/ CheckoutGet
    \/ CheckoutPost

SpecPay == InitPay /\ [][NextPay]_vars

-----------------------------------------------------------------------------
(* Claims about the validators and the checkout form.                      *)

\* The outcome of field f's validator on the submitted form.
FieldOutcome(f) ==
    CASE f = "card_number" -> validate_card_number(form.card_number)
      [] f = "exp_date" -> validate_exp_date(form.exp_date, today)
      [] f = "cvv" -> validate_cvv(form.cvv)
      [] f = "name_on_card" -> validate_name_on_card(form.name_on_card)
      [] f = "billing_email" -> validate_billing_email(form.billing_email)

Reported(f) == FieldOutcome(f).kind = "return" /\ FieldOutcome(f).error # ""
Succeeded(f) == FieldOutcome(f).kind = "return" /\ FieldOutcome(f).error = ""

Accepted(res) == res.kind = "return" /\ res.error = ""

\* C4: every call of validate_payment_form runs all five validators and
\* returns errors whose keys are exactly the fields whose validator reported
\* an error; a bad card number with a bad billing email yields both keys.
C4_AllFieldsReported ==
    pay.method = "POST" =>
        /\ pay.result.kind = "return"
        /\ DOMAIN pay.result.errors = {f \in Fields : Reported(f)}
        /\ (Reported("card_number") /\ Reported("billing_email")) =>
               {"card_number", "billing_email"} \subseteq DOMAIN pay.result.errors

\* C5: in what validate_payment_form returns, a key is in clean only when its
\* field's validator succeeded, and the keys are those the checkout handler
\* reads (the card number under card_number).
C5_CleanOnlyOnSuccess ==
    (pay.method = "POST" /\ pay.result.kind = "return") =>
        \A k \in DOMAIN pay.result.clean :
            k \in clean_keys_read /\ Succeeded(k)

\* C6: no field validator and no orchestrator call raises: each ends with a
\* normal return value.
C6_NeverRaises ==
    /\ out.fn # "none" => out.res.kind = "return"
    /\ pay.method = "POST" => pay.result.kind = "return"

\* The Luhn checksum as the specification states it: from the right, every
\* second digit doubled, minus 9 when above 9; the sum is 0 modulo 10.
RECURSIVE LuhnSum(_, _)
LuhnSum(d, k) ==
    IF d = <<>> THEN 0
    ELSE LET v == DigitVal(d[Len(d)])
             w == IF k % 2 = 1 THEN (IF 2 * v > 9 THEN 2 * v - 9 ELSE 2 * v) ELSE v
         IN  w + LuhnSum(SubSeq(d, 1, Len(d) - 1), k + 1)

LuhnPasses(d) == LuhnSum(d, 0) % 10 = 0

\* The input normalised, with spaces and hyphens removed.
CardDigits(s) == remove(remove(normalize_basic(s), " "), "-")

\* C7: validate_card_number accepts exactly the inputs whose digits (after
\* normalisation and removal of spaces and hyphens) are digits only, 13 to 19
\* long and pass Luhn, and then returns those digits; 4111111111111111 is
\* accepted and 4111111111111112 is rejected.
C7_CardAcceptedIffLuhn ==
    out.fn = "validate_card_number" =>
        LET d == CardDigits(out.arg)
        IN  /\ Accepted(out.res) <=>
                   (AllDigits(d) /\ Len(d) >= 13 /\ Len(d) <= 19 /\ LuhnPasses(d))
            /\ Accepted(out.res) => out.res.clean = d
            /\ out.arg = <<"4">> \o Rep("1", 15) => Accepted(out.res)
            /\ out.arg = <<"4">> \o Rep("1", 14) \o <<"2">> => ~Accepted(out.res)

IsMMYY(e) ==
    /\ Len(e) = 5
    /\ e[3] = "/"
    /\ \A i \in {1, 2, 4, 5} : e[i] \in Digits

Verdict(res) ==
    CASE res.kind = "raise" -> "raised"
      [] res.kind = "return" /\ res.error = "" -> "valid"
      [] res.kind = "return" /\ res.error = "Card expired" -> "expired"
      [] res.kind = "return" /\ res.error \in {"format must be MM/YY",
                                              "Month must be beween 01 and 12"}
             -> "invalid format"
      [] OTHER -> "other"

ExpectedVerdict(e, d) ==
    LET month == DigitsVal(SubSeq(e, 1, 2))
        year_full == 2000 + DigitsVal(SubSeq(e, 4, 5))
    IN  IF month < 1 \/ month > 12 THEN "invalid format"
        ELSE IF year_full < d.year \/ (year_full = d.year /\ month < d.month)
        THEN "expired"
        ELSE IF year_full > d.year + 15 THEN "too far future"
        ELSE "valid"

\* C8: on an MM/YY input validate_exp_date reports invalid format for a month
\* outside 01..12, expired for a month before the current one, too far future
\* beyond 15 years, and otherwise accepts with the normalised MM/YY as clean
\* value (at 2025-06: 06/25 valid, 05/25 expired, 06/41 too far, 13/25 invalid).
C8_ExpDateVerdict ==
    (out.fn = "validate_exp_date" /\ IsMMYY(normalize_basic(out.arg))) =>
        /\ Verdict(out.res) = ExpectedVerdict(normalize_basic(out.arg), today)
        /\ Accepted(out.res) => out.res.clean = normalize_basic(out.arg)

\* C9: a validator that returns an error returns an empty clean value;
\* validate_cvv returns an empty clean value on every input; the clean
\* mapping of validate_payment_form has no CVV entry.
C9_ErrorMeansEmptyClean ==
    /\ (out.res.kind = "return" /\ out.res.error # "") => out.res.clean = <<>>
    /\ out.fn = "validate_cvv" =>
           out.res.kind = "return" /\ out.res.clean = <<>>
    /\ pay.result.kind = "return" => "cvv" \notin DOMAIN pay.result.clean

\* A well-formed CVV has been validated and a submitted form has come back
\* with errors.
C9_Witness ==
    /\ out.fn = "validate_cvv"
    /\ out.arg = <<"1", "2", "3">>
    /\ out.res.error = ""
    /\ pay.method = "POST"
    /\ pay.result.kind = "return"
    /\ "card_number" \in DOMAIN pay.result.errors

-----------------------------------------------------------------------------
(* The login specification: worker threads handle login POSTs while the    *)
(* clock advances. A POST that passes the lock check compares the          *)
(* credential in a later step, so that requests interleave as threads do.  *)

PayIdle ==
    /\ out = NoOut
    /\ today = [year |-> 2025, month |-> 6]
    /\ form = DefaultForm
    /\ pay = NoPay

Init ==
    /\ PayIdle
    /\ users = UserFile
    /\ now = TickStep
    /\ lockout = <<>>
    /\ req = [r \in Reqs |-> Idle]
    /\ last = NoLast
    /\ streak = [i \in Ids |-> 0]
    /\ struck = {}

\* The identifier a raw email names.
IdOf(email_raw) == lower(normalize_basic(email_raw))

\* POST /login, lines 283-305.
\* `last` keeps what the step saw and answered, and its age in clock time.
LoginPost(r, email_raw, password_raw) ==
    LET c == login_check(lockout, now, email_raw, password_raw)
    IN  /\ req[r].pc = "idle"
        /\ req' = IF c.done THEN req
                  ELSE [req EXCEPT ![r] =
                            [pc |-> "checked", password_raw |-> password_raw,
                             email_clean |-> c.email_clean]]
        /\ last' = [op |-> IF ~c.done THEN "checked"
                           ELSE IF c.asked THEN "locked" ELSE "invalid",
                    id |-> IdOf(email_raw), password |-> <<>>, age |-> 0,
                    pre |-> lockout,
                    was_locked |->
                        is_account_locked(lockout, IdOf(email_raw), now).locked,
                    asked |-> c.asked, compared |-> FALSE, found |-> FALSE,
                    call |-> "", resp |-> c.resp]
        /\ UNCHANGED <<users, now, lockout, streak, struck>>
        /\ UNCHANGED payVars

\* The count of consecutive failed attempts from a clean start (no record, or
\* an unlocked record with attempts = 0), for the claims that speak of it.
StreakAfter(s, lk, identifier, t, call) ==
    LET clean_start ==
            \/ identifier \notin DOMAIN lk
            \/ /\ ~is_account_locked(lk, identifier, t).locked
               /\ lk[identifier].attempts = 0
    IN  IF call = "register_successful_login" THEN 0
        ELSE IF clean_start THEN 1
        ELSE IF s > 0 /\ s <= MAX_ATTEMPTS THEN s + 1
        ELSE 0

\* Whether a failure registered now brings attempts to MAX_ATTEMPTS, and so
\* imposes a lock.
Imposes(lk, identifier) ==
    record_of(lk, identifier).attempts + 1 >= MAX_ATTEMPTS

\* The identifiers with a failure registered since their lock was imposed.
StruckAfter(s, lk, identifier, t, call) ==
    IF call = "register_failed_attempt"
    THEN IF Imposes(lk, identifier) THEN s \ {identifier}
         ELSE s \cup {identifier}
    ELSE IF is_account_locked(lk, identifier, t).locked THEN s
    ELSE s \ {identifier}

\* POST /login, lines 307-323.
LoginAuth(r) ==
    LET id == req[r].email_clean
        a == login_auth(users, lockout, now, id, req[r].password_raw)
    IN  /\ req[r].pc = "checked"
        /\ lockout' = a.lockout
        /\ req' = [req EXCEPT ![r] = Idle]
        /\ last' = [op |-> IF a.resp.session = NoSession THEN "fail"
                           ELSE "success",
                    id |-> id, password |-> req[r].password_raw,
                    age |-> 0, pre |-> lockout,
                    was_locked |-> is_account_locked(lockout, id, now).locked,
                    asked |-> FALSE, compared |-> a.found, found |-> a.found,
                    call |-> a.call, resp |-> a.resp]
        /\ streak' = [streak EXCEPT ![id] =
                          StreakAfter(streak[id], lockout, id, now, a.call)]
        /\ struck' = StruckAfter(struck, lockout, id, now, a.call)
        /\ UNCHANGED <<users, now>>
        /\ UNCHANGED payVars

\* time() moves on.
Tick ==
    /\ now < TickStep * (MaxTicks + 1)
    /\ now' = now + TickStep
    /\ last' = [last EXCEPT !.age = IF last.age + TickStep >= LOCK_DURATION
                                    THEN LOCK_DURATION
                                    ELSE last.age + TickStep]
    /\ UNCHANGED <<users, lockout, req, streak, struck>>
    /\ UNCHANGED payVars

Next ==
    \/ \E r \in Reqs, f \in LoginForms : LoginPost(r, f[1], f[2])
    \/ \E r \in Reqs : LoginAuth(r)
    \/ Tick

Spec == Init /\ [][Next]_vars

-----------------------------------------------------------------------------
(* Claims about the lockout tracker and the login handler.                 *)

Locked(identifier) == is_account_locked(lockout, identifier, now)

\* The clock reading of the last step, known while its age is below the cap.
StepTime == now - last.age

\* C1: from a clean start, one or two consecutive failed attempts leave the
\* identifier unlocked; the third locks it, and isLocked then answers true
\* with 0 < secondsRemaining <= 300.
C1_LockAfterThreeFailures ==
    /\ \A i \in Ids : streak[i] \in {1, 2} => ~Locked(i).locked
    /\ (last.op = "fail" /\ streak[last.id] = MAX_ATTEMPTS
            /\ last.age < LOCK_DURATION) =>
           /\ Locked(last.id).locked
           /\ Locked(last.id).seconds = LOCK_DURATION - last.age
           /\ 0 < Locked(last.id).seconds
           /\ Locked(last.id).seconds <= LOCK_DURATION

\* The third consecutive failure was registered two clock steps ago.
C1_Witness ==
    /\ last.op = "fail"
    /\ streak[last.id] = MAX_ATTEMPTS
    /\ last.age = 2 * TickStep
    /\ Locked(last.id).locked

PostOps == {"invalid", "locked", "checked"}

Refused(status) ==
    /\ last.resp.status = status
    /\ ~last.compared
    /\ last.call = ""
    /\ last.resp.session = NoSession
    /\ lockout = last.pre
    /\ last.op # "checked"

\* C2 as stated: whenever the identifier of a login POST is locked, the POST
\* is answered 403 without comparing the credential, with no session and no
\* change to the lockout record.
C2_LockedAlwaysAnswered403 ==
    (last.op \in PostOps /\ last.was_locked) => Refused(403)

\* C2, amended: a login POST that passes validate_login_input while its
\* identifier is locked is answered 403 with the seconds remaining, without
\* comparing the credential, with no session and no change to the lockout
\* record; one that fails validation is answered 400, likewise.
C2_LockedRefusedBeforeCredentials ==
    /\ (last.op \in PostOps /\ last.was_locked /\ last.asked) =>
           /\ last.op = "locked"
           /\ Refused(403)
           /\ last.age < LOCK_DURATION =>
                  last.resp.seconds =
                      is_account_locked(last.pre, last.id, StepTime).seconds
    /\ (last.op \in PostOps /\ last.was_locked /\ ~last.asked) =>
           last.op = "invalid" /\ Refused(400)

\* A well-formed POST for a locked identifier has just been refused.
C2_Witness ==
    /\ last.op = "locked"
    /\ last.was_locked
    /\ last.resp.status = 403
    /\ last.resp.seconds = LOCK_DURATION - TickStep

\* C3: registerSuccessfulLogin on an unlocked identifier leaves the record
\* attempts = 0, lockedUntil = 0, so that the third further failure, and not
\* an earlier one, locks it; on a locked identifier it changes nothing.
C3_SuccessResets ==
    (last.op = "success" /\ last.call = "register_successful_login") =>
        IF last.was_locked THEN lockout = last.pre
        ELSE LET f1 == register_failed_attempt(lockout, last.id, now)
                 f2 == register_failed_attempt(f1, last.id, now)
                 f3 == register_failed_attempt(f2, last.id, now)
             IN  /\ last.id \in DOMAIN lockout
                 /\ lockout[last.id] = [attempts |-> 0, lockedUntil |-> 0]
                 /\ \A k \in DOMAIN lockout \ {last.id} :
                        k \in DOMAIN last.pre /\ lockout[k] = last.pre[k]
                 /\ ~is_account_locked(f1, last.id, now).locked
                 /\ ~is_account_locked(f2, last.id, now).locked
                 /\ is_account_locked(f3, last.id, now).locked

\* A successful login has cleared an expired lock and a non-zero counter.
C3_Witness ==
    /\ last.op = "success"
    /\ ~last.was_locked
    /\ last.id \in DOMAIN last.pre
    /\ last.pre[last.id].lockedUntil > 0
    /\ last.pre[last.id].attempts > 0

\* The user file without the account, and with it under another password.
WithoutUser(us, identifier) ==
    SelectSeq(us, LAMBDA u : lower(strip(u.email)) # identifier)

WithUser(us, identifier, password) ==
    <<User(identifier, password)>> \o WithoutUser(us, identifier)

\* C10: for a well-formed login POST on an unlocked identifier, the response
\* and the lockout record afterwards are the same whether the account does
\* not exist or exists with another password.
C10_FailuresUndifferentiated ==
    /\ \A f \in LoginForms :
           LET v == validate_login_input(f[1], f[2])
               id == v.clean.email
           IN  (v.errors = {} /\ ~Locked(id).locked) =>
                   \A q \in LoginPasswords \ {f[2]} :
                       login(WithoutUser(users, id), lockout, now, f[1], f[2])
                           = login(WithUser(users, id, q), lockout, now, f[1], f[2])
    /\ (last.op = "fail" /\ last.age < LOCK_DURATION) =>
           LET other == IF last.found THEN WithoutUser(users, last.id)
                        ELSE WithUser(users, last.id, <<"!">>)
               a == login_auth(other, last.pre, StepTime, last.id,
                               last.password)
           IN  last.resp = a.resp /\ lockout = a.lockout

\* A wrong password for the registered account has just been refused.
C10_Witness ==
    /\ last.op = "fail"
    /\ last.found
    /\ last.resp.status = 401

-----------------------------------------------------------------------------
(* The burst specification: four worker threads handle login POSTs for the *)
(* registered account, so that several requests that passed the lock check *)
(* are still in flight when the account is locked.                         *)

Workers == {"t1", "t2", "t3", "t4"}

\* The registered account with its password and with a wrong one.
BurstForms ==
    {<<e, p>> \in LoginForms :
         e = <<" ", "A", "@", "x", ".", "b">> /\ p # <<>>}

InitBurst ==
    /\ PayIdle
    /\ users = UserFile
    /\ now = TickStep
    /\ lockout = <<>>
    /\ req = [r \in Workers |-> Idle]
    /\ last = NoLast
    /\ streak = [i \in Ids |-> 0]
    /\ struck = {}

NextBurst ==
    \/ \E r \in Workers, f \in BurstForms : LoginPost(r, f[1], f[2])
    \/ \E r \in Workers : LoginAuth(r)
    \/ Tick

SpecBurst == InitBurst /\ [][NextBurst]_vars

\* C11: lockedUntil is never extended while the identifier is still locked:
\* a handler step that finds the identifier locked leaves its lockedUntil as
\* it was, whatever failed attempts arrive during the lock.
C11_LockNeverExtended ==
    (last.op # "none" /\ last.was_locked) =>
        /\ last.id \in DOMAIN lockout
        /\ lockout[last.id].lockedUntil = last.pre[last.id].lockedUntil

\* C12: with requests for one identifier handled concurrently no failed
\* attempt is lost: the third consecutive failed credential check locks the
\* identifier, no fourth is completed before the lock is over, and no
\* credential is checked for an identifier that is locked.
C12_NoCheckBeyondThreshold ==
    /\ (last.op = "fail" /\ streak[last.id] = MAX_ATTEMPTS
            /\ last.age < LOCK_DURATION) => Locked(last.id).locked
    /\ \A i \in Ids : streak[i] <= MAX_ATTEMPTS
    /\ last.op \in {"fail", "success"} => ~last.was_locked

\* C14: after every tracker operation the stored attempts counter of every
\* identifier is between 0 and MAX_ATTEMPTS - 1; it is 0 when a failure has
\* just imposed a lock, and it is still 0 from then until the lock expires,
\* the moment of expiry included, if no failure was registered meanwhile.
C14_AttemptsBelowThreshold ==
    /\ \A i \in DOMAIN lockout : lockout[i].attempts \in 0..(MAX_ATTEMPTS - 1)
    /\ (last.op = "fail" /\ Imposes(last.pre, last.id)) =>
           /\ lockout[last.id].attempts = 0
           /\ last.age < LOCK_DURATION =>
                  lockout[last.id].lockedUntil = StepTime + LOCK_DURATION
    /\ \A i \in DOMAIN lockout :
           (lockout[i].lockedUntil >= now /\ i \notin struck) =>
               lockout[i].attempts = 0

\* A lock imposed by a third failure is expiring at this clock reading, no
\* failure was registered during it, and another identifier's counter is at
\* MAX_ATTEMPTS - 1.
C14_Witness ==
    \E i \in DOMAIN lockout, k \in DOMAIN lockout :
        /\ lockout[i].lockedUntil = now
        /\ i \notin struck
        /\ lockout[i].attempts = 0
        /\ lockout[k].attempts = MAX_ATTEMPTS - 1

-----------------------------------------------------------------------------
(* Claims about the validators called on their own output.                 *)

\* C13: each of validate_card_number, validate_exp_date,
\* validate_name_on_card and validate_billing_email, called on the clean
\* value c it returned for an input it accepted, returns clean value c and
\* an empty error.
C13_Idempotent ==
    out.again => out.res = Ret(out.arg, "")

\* validate_card_number has been called on the clean value it returned for
\* an input that normalisation changed, and has returned it again.
C13_Witness ==
    /\ out.again
    /\ out.fn = "validate_card_number"
    /\ out.arg # form.card_number
    /\ out.res = Ret(out.arg, "")

=============================================================================
